---- MODULE Spec2Model ----
(***************************************************************************)
(* A model of the file explorer's FileSystemProvider (fileExplorer.ts):    *)
(* directory listing and the tree's getChildren, getTreeItem with its size *)
(* annotations, readFile with its error mapping, and watch with its change *)
(* events.  The file system and the OS are the environment: they change    *)
(* between any two steps of an asynchronous operation.                     *)
(***************************************************************************)
EXTENDS Integers, Sequences, FiniteSets, TLC

VARIABLES
    fsDir,            \* [Dirs -> DirKinds]: what each directory path is on disk
    fsNode,           \* [Dirs \X Names -> NodeKinds]: the entries of each directory
    workspaceFolders, \* vscode.workspace.workspaceFolders: undefined, or the folders
    gc,               \* the getChildren call in progress
    readLog,          \* the directories fs.readdir was called on
    nMut,             \* file-system changes made by other processes so far
    disk,             \* what is at the path of the node getTreeItem or readFile is about
    ti,               \* the getTreeItem call in progress
    rf,               \* the readFile call in progress
    token,            \* a cancellation token's isCancellationRequested
    wfile,            \* [WPaths -> ...]: the files below the watched folder
    watchers,         \* [Wids -> ...]: the fs.watch watchers and their disposables
    osq,              \* [Wids -> ...]: raw notifications queued for each callback, read or not
    handlers,         \* callbacks suspended in `await _.exists(filepath)`
    emitted,          \* [Wids -> ...]: what each callback fired on _onDidChangeFile, in order
    nOps              \* file operations done below the watched folder

treeVars == <<fsDir, fsNode, workspaceFolders, gc, readLog>>
itemVars == <<disk, ti, rf, token>>
watchVars == <<wfile, watchers, osq, handlers, emitted, nOps>>
vars == <<treeVars, nMut, itemVars, watchVars>>

\* ---------------------------------------------------------------- bounds
MaxMut == 1
MaxFolders == 2
MaxOps == 2
MaxDispose == 2

\* ------------------------------------------------------------- the values
Null == "null"
NoElement == "undefined"

\* File names are sequences of letters (1 = "a", 2 = "b"): "a", "ab", "b".
Names == {<<1>>, <<1, 2>>, <<2>>}
Dirs == {"/w1", "/w2"}
DirKinds == {"dir", "none", "file", "noperm"}
NodeKinds == {"none", "file", "dir", "linkfile", "linkdangling", "fifo"}
FileTypes == {"Unknown", "File", "Directory", "SymbolicLink"}

\* path.join(dir, name)
Join(dir, name) == <<dir, name>>

\* ------------------------------------------------------------ massageError
\* massageError: the typed error of an OS error code, or the error itself.
\* The OS code for a denied access is EACCES; the code compares with 'EACCESS'.
massageError(code) ==
    IF code = "ENOENT" THEN "FileNotFound"
    ELSE IF code = "EISDIR" THEN "FileIsADirectory"
    ELSE IF code = "EEXIST" THEN "FileExists"
    ELSE IF code = "EPERM" \/ code = "EACCESS" \/ code = "EBUSY" THEN "NoPermissions"
    ELSE code

\* handleResult: reject(massageError(error)) or resolve(result)
handleResult(error, result) ==
    IF error # Null THEN [settled |-> "rejected", error |-> massageError(error), value |-> <<>>]
    ELSE [settled |-> "resolved", error |-> Null, value |-> result]

\* ------------------------------------------------------------------- stat
\* A number of the program, or JavaScript's undefined.
Num(n) == [defined |-> TRUE, n |-> n]
Undefined == [defined |-> FALSE, n |-> 0]

\* fs.statSync(path) follows symbolic links: what it reports is the target.
\* It throws (ENOENT) for a missing path or a dangling link.
StatSync(node) ==
    CASE node.kind \in {"file", "linkfile"} -> [threw |-> FALSE, mode |-> "reg", size |-> Num(node.size)]
      [] node.kind = "dir" -> [threw |-> FALSE, mode |-> "dir", size |-> Num(node.size)]
      [] node.kind = "fifo" -> [threw |-> FALSE, mode |-> "other", size |-> Num(0)]
      [] OTHER -> [threw |-> TRUE, mode |-> "undefined", size |-> Undefined]

\* _.stat: the Stats of the path, or an empty `new fs.Stats()` when statSync
\* throws; it never rejects.  Every field of an empty Stats is undefined.
stat(node) ==
    LET info == StatSync(node) IN
    IF info.threw THEN [mode |-> "undefined", size |-> Undefined]
    ELSE [mode |-> info.mode, size |-> info.size]

\* FileStat.type
FileStatType(fsStat) ==
    IF fsStat.mode = "reg" THEN "File"
    ELSE IF fsStat.mode = "dir" THEN "Directory"
    ELSE IF fsStat.mode = "lnk" THEN "SymbolicLink"
    ELSE "Unknown"

\* ------------------------------------------------------------------- sort
RECURSIVE localeCompare(_, _)
\* String.prototype.localeCompare on names of lower-case letters.
localeCompare(a, b) ==
    IF a = <<>> /\ b = <<>> THEN 0
    ELSE IF a = <<>> THEN -1
    ELSE IF b = <<>> THEN 1
    ELSE IF Head(a) < Head(b) THEN -1
    ELSE IF Head(a) > Head(b) THEN 1
    ELSE localeCompare(Tail(a), Tail(b))

\* The comparator of getChildren's children.sort: a, b are [name, type] pairs.
compareChildren(a, b) ==
    IF a[2] = b[2] THEN localeCompare(a[1], b[1])
    ELSE IF a[2] = "Directory" THEN -1 ELSE 1

RECURSIVE RunLength(_, _, _)
\* V8's CountAndMakeRun: the length of the run that starts the array, idx the
\* next element to look at.
RunLength(arr, idx, isDescending) ==
    IF idx > Len(arr) THEN idx - 1
    ELSE LET order == compareChildren(arr[idx], arr[idx - 1]) IN
         IF (isDescending /\ order >= 0) \/ (~isDescending /\ order < 0)
         THEN idx - 1
         ELSE RunLength(arr, idx + 1, isDescending)

ReverseRange(arr, n) ==
    [k \in 1..Len(arr) |-> IF k <= n THEN arr[n + 1 - k] ELSE arr[k]]

RECURSIVE BinarySearch(_, _, _, _)
\* The place of pivot in the sorted prefix arr[left..right-1].
BinarySearch(arr, pivot, left, right) ==
    IF left >= right THEN left
    ELSE LET mid == left + ((right - left) \div 2)
             order == compareChildren(pivot, arr[mid]) IN
         IF order < 0 THEN BinarySearch(arr, pivot, left, mid)
         ELSE BinarySearch(arr, pivot, mid + 1, right)

RECURSIVE BinaryInsertionSort(_, _)
\* V8's BinaryInsertionSort: arr[1..start-1] is sorted, insert the rest.
BinaryInsertionSort(arr, start) ==
    IF start > Len(arr) THEN arr
    ELSE LET pivot == arr[start]
             left == BinarySearch(arr, pivot, 1, start)
             moved == [k \in 1..Len(arr) |->
                         IF k < left \/ k > start THEN arr[k]
                         ELSE IF k = left THEN pivot
                         ELSE arr[k - 1]] IN
         BinaryInsertionSort(moved, start + 1)

\* Array.prototype.sort with compareChildren, as V8 sorts an array shorter
\* than its minimum run length: one run is counted (and reversed when it
\* descends), the rest is inserted by binary search.
SortChildren(children) ==
    IF Len(children) < 2 THEN children
    ELSE LET isDescending == compareChildren(children[2], children[1]) < 0
             run == RunLength(children, 3, isDescending)
             arr == IF isDescending THEN ReverseRange(children, run) ELSE children IN
         BinaryInsertionSort(arr, run + 1)

\* children.map(([name, type]) => ({ uri: Uri.file(path.join(dir, name)), type }))
MapEntries(dir, children) ==
    [k \in 1..Len(children) |-> [uri |-> Join(dir, children[k][1]), type |-> children[k][2]]]

\* --------------------------------------------------------------- readdir
Perms(S) ==
    {f \in [1..Cardinality(S) -> S] : \A i, j \in 1..Cardinality(S) : f[i] = f[j] => i = j}

\* The entries the file system holds for directory d.
Present(d) == {n \in Names : fsNode[<<d, n>>] # "none"}

\* The error code of fs.readdir on a path of this kind, Null when it lists.
ReaddirError(kind) ==
    CASE kind = "dir" -> Null
      [] kind = "none" -> "ENOENT"
      [] kind = "file" -> "ENOTDIR"
      [] OTHER -> "EACCES"

\* process.platform
Platforms == {"linux", "darwin"}

RECURSIVE normalize(_)
\* String.prototype.normalize('NFC') on a name, a sequence of characters:
\* 1 is "a", 2 is "b", 5 is "e", 9 is the combining acute accent U+0301,
\* 3 is "a" with acute, U+00E1, and 7 is "e" with acute, U+00E9.  An "a" or
\* an "e" and the accent after it compose to the one accented character; "b"
\* has no composed form, and every other character stays.
normalize(name) ==
    IF name = <<>> THEN <<>>
    ELSE IF Len(name) >= 2 /\ name[1] \in {1, 5} /\ name[2] = 9
    THEN <<IF name[1] = 1 THEN 3 ELSE 7>> \o normalize(SubSeq(name, 3, Len(name)))
    ELSE <<Head(name)>> \o normalize(Tail(name))

\* An array of names or one name of the program, or JavaScript's undefined.
Items(v) == [defined |-> TRUE, isArray |-> TRUE, v |-> v]
Item(v) == [defined |-> TRUE, isArray |-> FALSE, v |-> v]
NoItems == [defined |-> FALSE, isArray |-> FALSE, v |-> <<>>]

\* normalizeNFC: the items as they are on every platform but darwin; there
\* the NFC form of each item of an array, else the NFC form of the one item,
\* and a TypeError for undefined, which has no normalize.
normalizeNFC(platform, items) ==
    IF platform # "darwin" THEN [threw |-> FALSE, value |-> items]
    ELSE IF items.isArray
    THEN [threw |-> FALSE,
          value |-> Items([k \in 1..Len(items.v) |-> normalize(items.v[k])])]
    ELSE IF ~items.defined THEN [threw |-> TRUE, value |-> NoItems]
    ELSE [threw |-> FALSE, value |-> Item(normalize(items.v))]

\* _.readdir: fs.readdir calls back with (error) alone when it fails, and the
\* callback hands handleResult normalizeNFC(children).  When that throws, the
\* exception leaves the callback uncaught and the promise is never settled.
readdir(platform, kind, listing) ==
    LET error == ReaddirError(kind)
        children == IF error # Null THEN NoItems ELSE Items(listing)
        normalized == normalizeNFC(platform, children) IN
    IF normalized.threw
    THEN [settled |-> "never", error |-> "TypeError", value |-> <<>>]
    ELSE handleResult(error, normalized.value.v)

\* What statSync sees at path.join(d, n): nothing below a path that is not a
\* directory the process may search.
NodeAt(d, n) == IF fsDir[d] = "dir" THEN fsNode[<<d, n>>] ELSE "none"

\* ----------------------------------------------------------- getChildren
GcIdle ==
    [pc |-> "idle", element |-> NoElement, dir |-> Null, seenDir |-> Null,
     children |-> <<>>, result |-> <<>>, threw |-> <<>>, ret |-> <<>>, error |-> Null,
     uncaught |-> Null]

\* workspaceFolders.filter(folder => folder.uri.scheme === 'file')
FileFolders(folders) == SelectSeq(folders, LAMBDA f : f.scheme = "file")

\* The root taken without the filter on the scheme.
RootFolderAnyScheme(folders) ==
    IF folders = <<>> THEN Null ELSE folders[1].path

\* ...[0]: the path of the first file-scheme folder, Null when there is none.
RootFolder(folders) ==
    IF FileFolders(folders) = <<>> THEN Null ELSE FileFolders(folders)[1].path

\* getChildren(element?) up to its first await: the result without any read
\* when there is no workspace or no file-scheme folder, else fs.readdir is
\* called on the element's path or on the first file-scheme folder.
GetChildrenCall(element) ==
    /\ gc.pc = "idle"
    /\ LET dir == IF element # NoElement THEN element
                  ELSE RootFolder(workspaceFolders.folders) IN
       IF workspaceFolders.isNull
       THEN /\ gc' = [gc EXCEPT !.pc = "done", !.element = element]
            /\ UNCHANGED readLog
       ELSE IF dir = Null
       THEN /\ gc' = [gc EXCEPT !.pc = "done", !.element = element]
            /\ UNCHANGED readLog
       ELSE /\ gc' = [gc EXCEPT !.pc = "readdir", !.element = element, !.dir = dir]
            /\ readLog' = readLog \cup {dir}
    /\ UNCHANGED <<fsDir, fsNode, workspaceFolders, nMut>>
    /\ UNCHANGED <<itemVars, watchVars>>

\* fs.readdir completes: _readDirectory rejects with the massaged error, or
\* goes on with the names in the order the OS lists them, or stays suspended
\* for ever in its await when the callback threw.  The platform is the
\* process's; the one call of a behaviour is the only place that reads it.
ReaddirComplete ==
    /\ gc.pc = "readdir"
    /\ \E platform \in Platforms, listing \in Perms(Present(gc.dir)) :
         LET r == readdir(platform, fsDir[gc.dir], listing) IN
         gc' = IF r.settled = "rejected"
               THEN [gc EXCEPT !.pc = "failed", !.error = r.error, !.seenDir = fsDir[gc.dir]]
               ELSE IF r.settled = "never"
               THEN [gc EXCEPT !.pc = "unsettled", !.uncaught = r.error, !.seenDir = fsDir[gc.dir]]
               ELSE [gc EXCEPT !.pc = "stat", !.children = r.value, !.seenDir = fsDir[gc.dir]]
    /\ UNCHANGED <<fsDir, fsNode, workspaceFolders, readLog, nMut>>
    /\ UNCHANGED <<itemVars, watchVars>>

\* One turn of _readDirectory's loop: the child's type from _stat.
StatChild ==
    /\ gc.pc = "stat"
    /\ Len(gc.result) < Len(gc.children)
    /\ LET child == gc.children[Len(gc.result) + 1]
           node == [kind |-> NodeAt(gc.dir, child), size |-> 0] IN
       gc' = [gc EXCEPT !.result = Append(@, <<child, FileStatType(stat(node))>>),
                        !.threw = Append(@, StatSync(node).threw)]
    /\ UNCHANGED <<fsDir, fsNode, workspaceFolders, readLog, nMut>>
    /\ UNCHANGED <<itemVars, watchVars>>

\* readDirectory has resolved: a root request sorts, then both map to entries.
GetChildrenReturn ==
    /\ gc.pc = "stat"
    /\ Len(gc.result) = Len(gc.children)
    /\ gc' = [gc EXCEPT !.pc = "done",
                        !.ret = IF gc.element # NoElement
                                THEN MapEntries(gc.dir, gc.result)
                                ELSE MapEntries(gc.dir, SortChildren(gc.result))]
    /\ UNCHANGED <<fsDir, fsNode, workspaceFolders, readLog, nMut>>
    /\ UNCHANGED <<itemVars, watchVars>>

\* ------------------------------------------------- the other processes
\* Other processes change the file system at any moment.  What they did before
\* the call is in Init's choice of the file system, and what they do after it or
\* to another directory is not seen by it: the changes modelled are those to
\* the directory being listed, while it is being listed.
Listing(d) == gc.pc \in {"readdir", "stat"} /\ gc.dir = d

EnvUnlink(d, n) ==
    /\ nMut < MaxMut
    /\ Listing(d)
    /\ fsDir[d] = "dir"
    /\ fsNode[<<d, n>>] # "none"
    /\ fsNode' = [fsNode EXCEPT ![<<d, n>>] = "none"]
    /\ nMut' = nMut + 1
    /\ UNCHANGED <<fsDir, workspaceFolders, gc, readLog>>
    /\ UNCHANGED <<itemVars, watchVars>>

EnvCreate(d, n, kind) ==
    /\ nMut < MaxMut
    /\ Listing(d)
    /\ fsDir[d] = "dir"
    /\ fsNode[<<d, n>>] = "none"
    /\ fsNode' = [fsNode EXCEPT ![<<d, n>>] = kind]
    /\ nMut' = nMut + 1
    /\ UNCHANGED <<fsDir, workspaceFolders, gc, readLog>>
    /\ UNCHANGED <<itemVars, watchVars>>

EnvRmdir(d) ==
    /\ nMut < MaxMut
    /\ Listing(d)
    /\ fsDir[d] = "dir"
    /\ fsDir' = [fsDir EXCEPT ![d] = "none"]
    /\ fsNode' = [p \in DOMAIN fsNode |-> IF p[1] = d THEN "none" ELSE fsNode[p]]
    /\ nMut' = nMut + 1
    /\ UNCHANGED <<workspaceFolders, gc, readLog>>
    /\ UNCHANGED <<itemVars, watchVars>>

\* ------------------------------------------------------------ getTreeItem
Sizes == {0, 100, 2048}
GzSizes == {20, 60}

\* What may be at the node's path: nothing, a file (its size, its gzip size,
\* the error the OS gives on opening it), a directory (the size du reports).
DiskStates ==
    {[kind |-> "none", size |-> 0, gz |-> 0, deny |-> Null]}
    \cup [kind : {"file"}, size : Sizes, gz : GzSizes, deny : {Null, "EACCES", "EPERM", "EBUSY"}]
    \cup [kind : {"dir"}, size : Sizes, gz : {0}, deny : {Null, "EACCES"}]

\* filesize(arg) of the filesize package with its defaults: base 2, two
\* decimals, the number in hundredths with its unit.  It throws a TypeError
\* when the argument is not a number, as undefined is not.
filesize(arg) ==
    IF ~arg.defined THEN [threw |-> TRUE, text |-> <<>>]
    ELSE IF arg.n < 1024 THEN [threw |-> FALSE, text |-> <<arg.n * 100, "B">>]
    ELSE [threw |-> FALSE, text |-> <<(arg.n * 200 + 1024) \div 2048, "KB">>]

\* gzipSize.fileSync(path): it reads the file, so it throws when the path is
\* not a file the process may read.
GzipFileSync(d) ==
    IF d.kind = "file" /\ d.deny = Null THEN [threw |-> FALSE, n |-> d.gz]
    ELSE [threw |-> TRUE, n |-> 0]

\* _getGzipSize: 0 when gzipSize.fileSync throws.
getGzipSize(d) ==
    LET r == GzipFileSync(d) IN IF r.threw THEN Num(0) ELSE Num(r.n)

\* What fast-folder-size hands to its callback: (err) when the size command
\* fails, (null, bytes) otherwise.
FastFolderSize(d) ==
    IF d.kind = "dir" /\ d.deny = Null THEN [err |-> FALSE, result |-> Num(d.size)]
    ELSE [err |-> TRUE, result |-> Undefined]

\* checkCancellation(token): throws when the token is signalled.  Nothing in
\* the program calls it.
checkCancellation(isCancellationRequested) ==
    IF isCancellationRequested THEN "throw" ELSE "return"

\* _getDirSize: the promise resolves with the callback's result whatever its
\* err, and with 0 when fastFolderSize itself throws.  No token is looked at.
getDirSize(syncThrow, cb) ==
    IF syncThrow THEN [settled |-> "resolved", value |-> Num(0), error |-> Null]
    ELSE [settled |-> "resolved", value |-> cb.result, error |-> Null]

\* The await of a promise in getTreeItem: its value, or the call rejects.
Awaited(item, promise, pc) ==
    IF promise.settled = "rejected"
    THEN [item EXCEPT !.pc = "failed", !.error = promise.error]
    ELSE [item EXCEPT !.pc = pc, !.size = promise.value]

TiIdle ==
    [pc |-> "idle", type |-> "Unknown", collapsible |-> "None", command |-> Null,
     stats |-> [mode |-> "undefined", size |-> Undefined], statThrew |-> FALSE,
     duErr |-> FALSE, duResult |-> Undefined, signalled |-> FALSE,
     size |-> Num(0), description |-> <<>>, error |-> Null]

\* getTreeItem(element) up to its first await: the item, and for a File the
\* stat (statSync runs inside the call), for a Directory the start of the size
\* command, which may throw at once.
GetTreeItemCall(type, syncThrow) ==
    /\ ti.pc = "idle" /\ rf.pc = "idle"
    /\ LET item == [ti EXCEPT !.type = type,
                              !.collapsible = IF type = "Directory" THEN "Collapsed" ELSE "None"] IN
       ti' = CASE type = "File" ->
                    [item EXCEPT !.pc = "stat", !.command = "fileExplorer.openFile",
                                 !.stats = stat(disk), !.statThrew = StatSync(disk).threw]
               [] type = "Directory" /\ syncThrow ->
                    Awaited(item, getDirSize(TRUE, FastFolderSize(disk)), "dirsize")
               [] type = "Directory" /\ ~syncThrow -> [item EXCEPT !.pc = "du"]
               [] OTHER -> [item EXCEPT !.pc = "done"]
    /\ UNCHANGED <<treeVars, nMut, disk, rf, token>>
    /\ UNCHANGED watchVars

\* The File branch after the await: the description from the stat's size and
\* the gzip size; filesize throws outside the try, so the call rejects.
GetTreeItemFile ==
    /\ ti.pc = "stat"
    /\ LET size == ti.stats.size
           first == filesize(size)
           second == filesize(getGzipSize(disk)) IN
       ti' = IF first.threw \/ second.threw
             THEN [ti EXCEPT !.pc = "failed", !.size = size, !.error = "TypeError"]
             ELSE [ti EXCEPT !.pc = "done", !.size = size,
                             !.description = <<first.text, second.text>>]
    /\ UNCHANGED <<treeVars, nMut, disk, rf, token>>
    /\ UNCHANGED watchVars

\* The size command ends and fast-folder-size calls back.
DuComplete ==
    /\ ti.pc = "du"
    /\ LET cb == FastFolderSize(disk) IN
       ti' = Awaited([ti EXCEPT !.duErr = cb.err, !.duResult = cb.result],
                     getDirSize(FALSE, cb), "dirsize")
    /\ UNCHANGED <<treeVars, nMut, disk, rf, token>>
    /\ UNCHANGED watchVars

\* The Directory branch after the await: the description from the size.
GetTreeItemDirectory ==
    /\ ti.pc = "dirsize"
    /\ LET first == filesize(ti.size) IN
       ti' = IF first.threw
             THEN [ti EXCEPT !.pc = "failed", !.error = "TypeError"]
             ELSE [ti EXCEPT !.pc = "done", !.description = <<first.text>>]
    /\ UNCHANGED <<treeVars, nMut, disk, rf, token>>
    /\ UNCHANGED watchVars

\* The holder of a cancellation token signals it.
Cancel ==
    /\ ~token
    /\ ti.pc \in {"stat", "du", "dirsize"}
    /\ token' = TRUE
    /\ ti' = [ti EXCEPT !.signalled = (ti.pc = "du")]
    /\ UNCHANGED <<treeVars, nMut, disk, rf>>
    /\ UNCHANGED watchVars

\* --------------------------------------------------------------- readFile
RfIdle == [pc |-> "idle", osError |-> Null, error |-> Null, bytes |-> Null]

\* The error code of fs.readFile on what is at the path, Null when it reads:
\* the open is refused for a path the process may not read, whatever it is,
\* and the read of an opened directory fails with EISDIR.
ReadFileError(d) ==
    CASE d.kind = "none" -> "ENOENT"
      [] d.deny # Null -> d.deny
      [] d.kind = "dir" -> "EISDIR"
      [] OTHER -> Null

\* readFile(uri): _.readfile calls fs.readFile.
ReadFileCall ==
    /\ ti.pc = "idle" /\ rf.pc = "idle"
    /\ rf' = [rf EXCEPT !.pc = "reading"]
    /\ UNCHANGED <<treeVars, nMut, disk, ti, token>>
    /\ UNCHANGED watchVars

\* fs.readFile's callback goes through handleResult.
ReadFileComplete ==
    /\ rf.pc = "reading"
    /\ LET r == handleResult(ReadFileError(disk), <<"bytes", disk.size>>) IN
       rf' = IF r.settled = "rejected"
             THEN [rf EXCEPT !.pc = "rejected", !.osError = ReadFileError(disk), !.error = r.error]
             ELSE [rf EXCEPT !.pc = "resolved", !.bytes = r.value]
    /\ UNCHANGED <<treeVars, nMut, disk, ti, token>>
    /\ UNCHANGED watchVars

\* Other processes remove what is at the path, or change who may read it,
\* while a call is in progress.
ItemBusy == ti.pc \in {"stat", "du"} \/ rf.pc = "reading"

DiskUnlink ==
    /\ nMut < MaxMut
    /\ ItemBusy
    /\ disk.kind # "none"
    /\ disk' = [kind |-> "none", size |-> 0, gz |-> 0, deny |-> Null]
    /\ nMut' = nMut + 1
    /\ UNCHANGED <<treeVars, ti, rf, token>>
    /\ UNCHANGED watchVars

DiskChmod(deny) ==
    /\ nMut < MaxMut
    /\ ItemBusy
    /\ disk.kind # "none"
    /\ disk.deny # deny
    /\ disk' = [disk EXCEPT !.deny = deny]
    /\ nMut' = nMut + 1
    /\ UNCHANGED <<treeVars, ti, rf, token>>
    /\ UNCHANGED watchVars

\* ------------------------------------------------------------------ watch
\* The names of the files below the watched folder: "a", and "e" followed by
\* the combining acute accent, as a file system of decomposed names reports it.
WPaths == {<<1>>, <<5, 9>>}
Wids == {1}

WatcherUnused ==
    [state |-> "unused", recursive |-> FALSE, platform |-> "linux",
     closes |-> 0, disposes |-> 0, delivered |-> 0, threw |-> 0]

\* FSWatcher.close(): it returns at once when the handle is already closed.
FSWatcherClose(w) ==
    IF w.state = "active" THEN [w EXCEPT !.state = "closed", !.closes = @ + 1] ELSE w

\* A disposable whose dispose forgets the watcher.
disposeNoClose(w) == [w EXCEPT !.disposes = @ + 1]

\* { dispose: () => watcher.close() }
dispose(w) == [FSWatcherClose(w) EXCEPT !.disposes = @ + 1]

\* event === 'change' ? Changed : await _.exists(filepath) ? Created : Deleted
changeType(event, exists) ==
    IF event = "change" THEN "Changed" ELSE IF exists THEN "Created" ELSE "Deleted"

\* _.exists: true when fs.access succeeds, false when it fails.
exists(file) == file.present

\* uri.fsPath of the watched folder.
WatchedFolder == "/w1"

\* path.join(uri.fsPath, _.normalizeNFC(filename.toString()))
filepath(platform, filename) ==
    Join(WatchedFolder, normalizeNFC(platform, Item(filename)).value.v)

\* The raw event a watcher that is not recursive reports for a file operation.
RawEvent(op) == IF op = "modify" THEN "change" ELSE "rename"

\* What a recursive watcher calls the listener with for one file operation.
\* It watches every file of the subtree on its own and scans a folder again
\* when something changed in it: a file the scan finds new is reported by one
\* 'rename', and not at all when it is gone by then; a file's own watcher
\* reports 'rename' when it finds the file gone and 'change' when it finds a
\* file there, once for every notification it has of it.
RecursiveCalls == {<<>>, <<"rename">>, <<"change">>, <<"change", "change">>}

\* Where a recursive watcher's calls for one operation stand among the calls
\* q it has still to make: `ahead` of them come after the new ones.  The scan
\* of the folder runs on every notification of the folder and reports each
\* file it finds new, in the order readdir lists them: the 'rename' of a
\* created file may so come ahead of calls still to be made for operations
\* before it, and is then made in the same read as the call it stands before.
Placed(q, calls, ahead) ==
    LET k == Len(q) - ahead
        read == ahead > 0 /\ q[k + 1].read IN
    SubSeq(q, 1, k) \o [i \in 1..Len(calls) |-> [calls[i] EXCEPT !.read = read]]
                    \o SubSeq(q, k + 1, Len(q))

\* watch(uri, options): fs.watch starts a watcher on the folder, recursive or
\* not as options.recursive says.  The platform is that of the process.
Watch(w, recursive, platform) ==
    /\ watchers[w].state = "unused"
    /\ watchers' = [watchers EXCEPT ![w].state = "active", ![w].recursive = recursive,
                                    ![w].platform = platform]
    /\ UNCHANGED <<wfile, osq, handlers, emitted, nOps>>
    /\ UNCHANGED <<treeVars, nMut, itemVars>>

\* The disposable's dispose(); a closed watcher gets no more callbacks.
Dispose(w) ==
    /\ watchers[w].state # "unused"
    /\ watchers[w].disposes < MaxDispose
    /\ watchers' = [watchers EXCEPT ![w] = dispose(@)]
    /\ osq' = [osq EXCEPT ![w] = IF watchers'[w].state = "closed" THEN <<>> ELSE @]
    /\ UNCHANGED <<wfile, handlers, emitted, nOps>>
    /\ UNCHANGED <<treeVars, nMut, itemVars>>

\* The OS merges a notification into the newest one of its queue when the two
\* are the same (the same kind of operation on the same name) and that one
\* was not read yet.  Two writes of a file before the event loop polled share
\* one 'change'; a write after the first was read has its own.
Coalesced(q, p, op, named) ==
    /\ q # <<>>
    /\ ~q[Len(q)].read
    /\ q[Len(q)].path = p
    /\ q[Len(q)].op = op
    /\ q[Len(q)].named = named

\* The event loop is calling the listener on the notifications of one read.
Dispatching == \E w \in Wids : osq[w] # <<>> /\ osq[w][1].read

\* The event loop polls: fs.watch reads at once every notification the OS
\* holds, and then calls the listener on each of them in turn.
Poll ==
    /\ ~Dispatching
    /\ \E w \in Wids : osq[w] # <<>>
    /\ osq' = [w \in Wids |-> [k \in 1..Len(osq[w]) |-> [osq[w][k] EXCEPT !.read = TRUE]]]
    /\ UNCHANGED <<wfile, watchers, handlers, emitted, nOps>>
    /\ UNCHANGED <<treeVars, nMut, itemVars>>

\* A raw notification: the event and the filename the listener will be called
\* with (named is FALSE when fs.watch has no filename to give, and passes
\* null), and the file operation it stands for.
Notification(event, p, op, opNo, named) ==
    [event |-> event, path |-> p, op |-> op, opNo |-> opNo, named |-> named, read |-> FALSE]

\* A process creates, deletes or writes a file below the watched folder.  For
\* a watcher that is not recursive the OS queues one raw notification, unless
\* it merges; for a recursive one fs.watch queues the calls it makes of it,
\* after the calls it has still to make, or, for a file the scan of the
\* folder finds new, ahead of some of them.
FileOp(p, op, calls, named, ahead) ==
    /\ nOps < MaxOps
    /\ IF op = "create" THEN ~wfile[p].present ELSE wfile[p].present
    /\ ahead > 0 => /\ op = "create"
                    /\ calls # <<>>
                    /\ \A w \in Wids : /\ watchers[w].state = "active"
                                       /\ watchers[w].recursive
                                       /\ ahead <= Len(osq[w])
    /\ nOps' = nOps + 1
    /\ wfile' = [wfile EXCEPT ![p] = IF op = "modify" THEN @ ELSE [present |-> (op = "create")]]
    /\ osq' = [w \in Wids |->
                 IF watchers[w].state # "active" THEN osq[w]
                 ELSE IF watchers[w].recursive
                 THEN Placed(osq[w],
                             [k \in 1..Len(calls) |->
                                 Notification(calls[k], p, op, nOps + 1, named)],
                             ahead)
                 ELSE IF Coalesced(osq[w], p, op, named) THEN osq[w]
                 ELSE Append(osq[w], Notification(RawEvent(op), p, op, nOps + 1, named))]
    /\ UNCHANGED <<watchers, handlers, emitted>>
    /\ UNCHANGED <<treeVars, nMut, itemVars>>

\* The watcher's callback runs on a raw notification that was read.  Without a
\* filename, filename.toString() throws a TypeError: the callback's promise is
\* rejected, nobody handles it, and nothing is fired.  Else a 'change' fires
\* Changed in the same turn, and anything else suspends in the await of
\* _.exists.
Deliver(w) ==
    /\ osq[w] # <<>>
    /\ Head(osq[w]).read
    /\ LET n == Head(osq[w]) IN
       /\ osq' = [osq EXCEPT ![w] = Tail(@)]
       /\ IF ~n.named
          THEN /\ watchers' = [watchers EXCEPT ![w].delivered = @ + 1, ![w].threw = @ + 1]
               /\ UNCHANGED <<handlers, emitted>>
          ELSE LET h == [w |-> w, path |-> n.path, event |-> n.event, op |-> n.op,
                         opNo |-> n.opNo, seq |-> watchers[w].delivered + 1,
                         access |-> "pending", present |-> FALSE,
                         uri |-> filepath(watchers[w].platform, n.path)] IN
               /\ watchers' = [watchers EXCEPT ![w].delivered = @ + 1]
               /\ IF n.event = "change"
                  THEN /\ emitted' = [emitted EXCEPT ![w] = Append(@,
                              [type |-> changeType(n.event, FALSE), path |-> h.path,
                               op |-> h.op, opNo |-> h.opNo, seq |-> h.seq,
                               afterClose |-> FALSE, event |-> n.event, present |-> FALSE,
                               uri |-> h.uri])]
                       /\ UNCHANGED handlers
                  ELSE /\ handlers' = handlers \cup {h}
                       /\ UNCHANGED emitted
    /\ UNCHANGED <<wfile, nOps>>
    /\ UNCHANGED <<treeVars, nMut, itemVars>>

\* fs.access runs in the thread pool: it sees the file as it is now.
AccessRun(h) ==
    /\ h \in handlers
    /\ h.access = "pending"
    /\ handlers' = (handlers \ {h}) \cup
          {[h EXCEPT !.access = IF exists(wfile[h.path]) THEN "found" ELSE "missing",
                     !.present = wfile[h.path].present]}
    /\ UNCHANGED <<wfile, watchers, osq, emitted, nOps>>
    /\ UNCHANGED <<treeVars, nMut, itemVars>>

\* fs.access calls back and the await resumes, in a turn of the event loop of
\* its own: the event is fired, whatever the watcher is by now.
AccessDone(h) ==
    /\ h \in handlers
    /\ h.access # "pending"
    /\ ~Dispatching
    /\ handlers' = handlers \ {h}
    /\ emitted' = [emitted EXCEPT ![h.w] = Append(@,
          [type |-> changeType(h.event, h.access = "found"), path |-> h.path,
           op |-> h.op, opNo |-> h.opNo, seq |-> h.seq,
           afterClose |-> (watchers[h.w].state = "closed"), event |-> h.event,
           present |-> h.present, uri |-> h.uri])]
    /\ UNCHANGED <<wfile, watchers, osq, nOps>>
    /\ UNCHANGED <<treeVars, nMut, itemVars>>

\* ------------------------------------------------------------------ Init
\* The workspace: none open, or up to MaxFolders folders of distinct paths.
Folder == [scheme : {"file", "vscode-remote"}, path : Dirs]

FolderLists ==
    {fl \in UNION {[1..k -> Folder] : k \in 0..MaxFolders} :
        \A i, j \in 1..Len(fl) : fl[i].path = fl[j].path => i = j}

\* workspaceFolders == null holds of undefined: no folder is open.
Workspaces ==
    {[isNull |-> TRUE, folders |-> <<>>]} \cup [isNull : {FALSE}, folders : FolderLists]

\* A directory that is not there has no entries; /w2 holds at most one file.
FsConsistent(dk, nk) ==
    /\ \A d \in Dirs : dk[d] # "dir" => \A n \in Names : nk[<<d, n>>] = "none"
    /\ dk["/w2"] = "dir"
    /\ \A n \in Names : nk[<<"/w2", n>>] \in (IF n = <<1>> THEN {"none", "file"} ELSE {"none"})

Init ==
    /\ fsDir \in [Dirs -> DirKinds]
    /\ fsNode \in [Dirs \X Names -> NodeKinds]
    /\ FsConsistent(fsDir, fsNode)
    /\ workspaceFolders \in Workspaces
    /\ gc = GcIdle
    /\ readLog = {}
    /\ nMut = 0
    /\ disk = [kind |-> "none", size |-> 0, gz |-> 0, deny |-> Null]
    /\ ti = TiIdle
    /\ rf = RfIdle
    /\ token = FALSE
    /\ wfile = [p \in WPaths |-> [present |-> FALSE]]
    /\ watchers = [w \in Wids |-> WatcherUnused]
    /\ osq = [w \in Wids |-> <<>>]
    /\ handlers = {}
    /\ emitted = [w \in Wids |-> <<>>]
    /\ nOps = 0

Next ==
    \/ \E element \in {NoElement} \cup Dirs : GetChildrenCall(element)
    \/ ReaddirComplete
    \/ StatChild
    \/ GetChildrenReturn
    \/ \E d \in Dirs, n \in Names : EnvUnlink(d, n)
    \/ \E d \in Dirs, n \in Names, kind \in {"file", "dir"} : EnvCreate(d, n, kind)
    \/ \E d \in Dirs : EnvRmdir(d)

Spec == Init /\ [][Next]_vars

\* getTreeItem and readFile on one node, whatever is at its path.
InitItem ==
    /\ fsDir = [d \in Dirs |-> "dir"]
    /\ fsNode = [p \in Dirs \X Names |-> "none"]
    /\ workspaceFolders = [isNull |-> FALSE, folders |-> <<[scheme |-> "file", path |-> "/w1"]>>]
    /\ gc = GcIdle
    /\ readLog = {}
    /\ nMut = 0
    /\ disk \in DiskStates
    /\ ti = TiIdle
    /\ rf = RfIdle
    /\ token = FALSE
    /\ wfile = [p \in WPaths |-> [present |-> FALSE]]
    /\ watchers = [w \in Wids |-> WatcherUnused]
    /\ osq = [w \in Wids |-> <<>>]
    /\ handlers = {}
    /\ emitted = [w \in Wids |-> <<>>]
    /\ nOps = 0

NextItem ==
    \/ \E type \in FileTypes, syncThrow \in BOOLEAN : GetTreeItemCall(type, syncThrow)
    \/ GetTreeItemFile
    \/ DuComplete
    \/ GetTreeItemDirectory
    \/ Cancel
    \/ ReadFileCall
    \/ ReadFileComplete
    \/ DiskUnlink
    \/ \E deny \in {Null, "EACCES", "EPERM"} : DiskChmod(deny)

SpecItem == InitItem /\ [][NextItem]_vars

\* Watchers on one folder, and file operations below it.
InitWatch ==
    /\ fsDir = [d \in Dirs |-> "dir"]
    /\ fsNode = [p \in Dirs \X Names |-> "none"]
    /\ workspaceFolders = [isNull |-> FALSE, folders |-> <<[scheme |-> "file", path |-> "/w1"]>>]
    /\ gc = GcIdle
    /\ readLog = {}
    /\ nMut = 0
    /\ disk = [kind |-> "none", size |-> 0, gz |-> 0, deny |-> Null]
    /\ ti = TiIdle
    /\ rf = RfIdle
    /\ token = FALSE
    /\ wfile \in [WPaths -> [present : BOOLEAN]]
    /\ watchers = [w \in Wids |-> WatcherUnused]
    /\ osq = [w \in Wids |-> <<>>]
    /\ handlers = {}
    /\ emitted = [w \in Wids |-> <<>>]
    /\ nOps = 0

NextWatch ==
    \/ \E w \in Wids, recursive \in BOOLEAN, platform \in Platforms : Watch(w, recursive, platform)
    \/ \E w \in Wids : Dispose(w)
    \/ \E p \in WPaths, op \in {"create", "delete", "modify"},
          calls \in RecursiveCalls, named \in BOOLEAN, ahead \in 0..(2 * MaxOps) :
             FileOp(p, op, calls, named, ahead)
    \/ Poll
    \/ \E w \in Wids : Deliver(w)
    \/ \E h \in handlers : AccessRun(h)
    \/ \E h \in handlers : AccessDone(h)

SpecWatch == InitWatch /\ [][NextWatch]_vars

\* ------------------------------------------------------------ properties
RetNames == [k \in 1..Len(gc.ret) |-> gc.ret[k].uri[2]]

Range(f) == {f[k] : k \in DOMAIN f}

\* What an entry is, not following links (lstat).
ActualType(kind) ==
    CASE kind = "file" -> "File"
      [] kind = "dir" -> "Directory"
      [] kind \in {"linkfile", "linkdangling"} -> "SymbolicLink"
      [] OTHER -> "Unknown"

RootDone == gc.pc = "done" /\ gc.element = NoElement

\* C1: a root request returns every Directory entry before every other entry,
\* and within the Directory group and within the group of the others the names
\* ascend.
C1_RootSorted ==
    RootDone =>
        \A i, j \in 1..Len(gc.ret) :
            i < j =>
                /\ gc.ret[j].type = "Directory" => gc.ret[i].type = "Directory"
                /\ (gc.ret[i].type = "Directory") = (gc.ret[j].type = "Directory")
                       => localeCompare(RetNames[i], RetNames[j]) < 0

\* C2: with a workspace open and nothing changing the directory meanwhile,
\* getChildren(D) of a listable D returns one node per entry of D and no other,
\* no name twice, each tagged with what the entry is.
C2_ExactListing ==
    (/\ gc.pc = "done"
     /\ gc.element # NoElement
     /\ ~workspaceFolders.isNull
     /\ nMut = 0) =>
        /\ Range(RetNames) = Present(gc.dir)
        /\ Len(gc.ret) = Cardinality(Present(gc.dir))
        /\ \A k \in 1..Len(gc.ret) : gc.ret[k].type = ActualType(fsNode[gc.ret[k].uri])

\* The folders of file scheme, by their place in the workspace.
FileIndexes == {i \in 1..Len(workspaceFolders.folders) : workspaceFolders.folders[i].scheme = "file"}

FirstFilePath ==
    workspaceFolders.folders[CHOOSE i \in FileIndexes : \A j \in FileIndexes : i <= j].path

\* C3: a root request with no workspace folder, or none of file scheme, is
\* answered with the empty sequence without any read and without an error; with
\* several folders only the first of file scheme is read, and the nodes
\* returned are the children listed for it.
C3_RootFolderOnly ==
    (gc.pc # "idle" /\ gc.element = NoElement) =>
        IF workspaceFolders.isNull \/ FileIndexes = {}
        THEN gc.pc = "done" /\ gc.ret = <<>> /\ readLog = {}
        ELSE /\ readLog = {FirstFilePath}
             /\ gc.pc = "done" =>
                  /\ \A k \in 1..Len(gc.ret) : gc.ret[k].uri[1] = FirstFilePath
                  /\ Range(RetNames) = Range(gc.children)

C3_Witness ==
    /\ RootDone
    /\ Len(workspaceFolders.folders) = 2
    /\ FileIndexes = {1, 2}
    /\ gc.ret # <<>>
    /\ readLog = {workspaceFolders.folders[1].path}

\* Per child: it is in the result under its listed name, and with type Unknown
\* when its stat failed.
ChildrenKept ==
    /\ gc.pc \in {"stat", "done"} =>
         \A k \in 1..Len(gc.result) :
             /\ gc.result[k][1] = gc.children[k]
             /\ gc.threw[k] => gc.result[k][2] = "Unknown"
    /\ (gc.pc = "done" /\ gc.dir # Null) => Len(gc.ret) = Len(gc.children)

\* C6 as stated, for a directory that does not exist: its listing fails, with
\* NotFound; no listing of a directory that can be listed fails, and a child
\* whose stat fails is listed as Unknown.
C6_OnlyNotFound ==
    /\ gc.pc = "failed" => gc.seenDir # "dir"
    /\ gc.seenDir = "none" => (gc.pc = "failed" /\ gc.error = "FileNotFound")
    /\ ChildrenKept

\* C5 as stated: getTreeItem never fails because of the size computation, and
\* the file size is 0 when the file cannot be stat'ed.
C5_NeverFails ==
    /\ ti.pc # "failed"
    /\ (ti.type = "File" /\ ti.statThrew) => ti.stats.size = Num(0)

\* C7 as stated: a failed read is rejected with NotFound for a missing path,
\* IsADirectory for a directory, NoPermissions for a path the process may not
\* read, and a read that failed returns no bytes.
C7_TypedErrors ==
    /\ rf.pc = "rejected" =>
         /\ rf.osError = "ENOENT" => rf.error = "FileNotFound"
         /\ rf.osError = "EISDIR" => rf.error = "FileIsADirectory"
         /\ rf.osError \in {"EACCES", "EPERM"} => rf.error = "NoPermissions"
    /\ rf.pc = "resolved" => (rf.osError = Null /\ rf.bytes # Null)

DirectoryEnded == ti.type = "Directory" /\ ti.pc \in {"done", "failed"}

\* C9 as stated: a token signalled during the directory size aggregation aborts
\* it, and the call ends cancelled, not with a size (looked at where the size
\* command itself succeeds).
C9_CancelAborts ==
    (DirectoryEnded /\ ti.signalled /\ ~ti.duErr) =>
        (ti.pc = "failed" /\ ti.error = "Operation cancelled")

\* The change type that names the file operation.
ExpectedType(op) ==
    CASE op = "create" -> "Created"
      [] op = "delete" -> "Deleted"
      [] OTHER -> "Changed"

\* C4 as stated, for a watcher that is not recursive: under every interleaving
\* the event of a creation is Created, the event of a deletion is Deleted and
\* the event of a modification is Changed.
C4_EventNamesOperation ==
    \A w \in Wids : \A k \in 1..Len(emitted[w]) :
        ~watchers[w].recursive => emitted[w][k].type = ExpectedType(emitted[w][k].op)

\* C8: whatever the watch and dispose calls, a watcher's handle is closed at
\* most once, exactly once when its disposable was disposed, and not otherwise.
C8_ClosedOnce ==
    \A w \in Wids :
        /\ watchers[w].closes <= 1
        /\ watchers[w].disposes >= 1 => watchers[w].closes = 1
        /\ watchers[w].disposes = 0 => watchers[w].closes = 0

\* A recursive watcher whose listener was called, disposed twice and closed
\* once.
C8_Witness ==
    \E w \in Wids :
        /\ watchers[w].recursive
        /\ watchers[w].delivered > 0
        /\ watchers[w].disposes = 2
        /\ watchers[w].closes = 1

\* C10: the events of one path are fired in the order in which its raw
\* notifications reached the callback.
C10_PerPathOrder ==
    \A w \in Wids : \A i, j \in 1..Len(emitted[w]) :
        (i < j /\ emitted[w][i].path = emitted[w][j].path)
            => emitted[w][i].seq < emitted[w][j].seq

\* Every notification the callback was run on has one event or one suspended
\* callback, and none has two events.
OneEventEach ==
    \A w \in Wids :
        /\ Len(emitted[w]) + Cardinality({h \in handlers : h.w = w}) = watchers[w].delivered
        /\ \A i, j \in 1..Len(emitted[w]) : emitted[w][i].seq = emitted[w][j].seq => i = j

\* The name as section 4.1 of the design normalizes it: composed where the
\* platform's file system reports decomposed names, as it is elsewhere.
NormalizedName(platform, name) ==
    IF platform = "darwin"
    THEN (CASE name = <<5, 9>> -> <<7>>
            [] name = <<1, 9>> -> <<3>>
            [] OTHER -> name)
    ELSE name

\* Each event carries the full path of the normalized name, and its type
\* follows the raw kind: Changed for 'change', otherwise Created when the path
\* was there as the existence check completed and Deleted when it was not.
EventKinds ==
    \A w \in Wids : \A k \in 1..Len(emitted[w]) :
        LET e == emitted[w][k] IN
        /\ e.uri = <<WatchedFolder, NormalizedName(watchers[w].platform, e.path)>>
        /\ e.type = (IF e.event = "change" THEN "Changed"
                     ELSE IF e.present THEN "Created" ELSE "Deleted")

\* C11: every raw notification the callback of a watcher received yields
\* exactly one event (fired, or to be fired when its existence re-check
\* completes), for the full path of the normalized name, repeated
\* notifications each their own: Changed for 'change', otherwise Created when
\* the path exists as the existence re-check completes and Deleted when not.
C11_OneEventPerNotification ==
    OneEventEach /\ EventKinds

\* C12: once a watcher's disposable was disposed no event is emitted for it
\* any more, not even for a notification it received while active and whose
\* existence re-check was pending as it was disposed.
C12_NoEventAfterDispose ==
    \A w \in Wids : \A k \in 1..Len(emitted[w]) : ~emitted[w][k].afterClose

====
